---- MODULE Spec2Model ----
(***************************************************************************)
(* State-machine model of src/logic.py: the ball engine GameLogic with its *)
(* world collection, its Inventory and its DeleteZone.                     *)
(*                                                                         *)
(* Python objects are modelled by reference: ball_store maps a ball's      *)
(* reference (the order in which the Ball objects were allocated) to the   *)
(* object's fields; the two lists hold references.  An Optional[X]         *)
(* value is a sequence of length <= 1: <<>> is None, <<x>> is x.           *)
(* Coordinates, speeds and dt are floats in the code.  A float keeps a     *)
(* fixed number of significant bits and every sum, difference and product  *)
(* is rounded to it (to nearest, ties to even): fl below.  The numbers of  *)
(* Spec, SpecDemo and SpecReorder are integers that fit, so the arithmetic *)
(* is exact there, as it is in the code for them; SpecRound runs the same  *)
(* operators on a float of 4 significant bits, where sums do round.        *)
(***************************************************************************)
EXTENDS Integers, Sequences, FiniteSets, TLC

VARIABLES
    config,         \* the fields of GameLogic set at construction and never assigned
    ball_store,     \* reference -> Ball fields, of every ball ever created
    balls,          \* GameLogic.balls: the world collection (references)
    inventory,      \* GameLogic.inventory.balls (references)
    next_ball_id,   \* GameLogic._next_ball_id
    call,           \* the last public call: [op, args]
    ret,            \* what it returned: <<>> for None, else the references
    old,            \* the engine's state when that call began
    ncalls          \* number of calls made so far

vars == <<config, ball_store, balls, inventory, next_ball_id, call, ret, old, ncalls>>

\* ------------------------------------------------------------- bounds
MaxCalls == 5
MaxBalls == 3

\* ------------------------------------------------ engine configuration
width == config.width
height == config.height
delete_zone == config.delete_zone
mouse_suck_radius == config.mouse_suck_radius
default_spit_speed == config.default_spit_speed
\* The significant bits of a float in this run (53 in the code; 30 stands for it
\* where every number is below 2^30 and so is exact in either).
float_bits == config.float_bits

\* GameLogic(width=800, height=600, delete_zone=DeleteZone(0, 560, 200, 600)) with
\* the default mouse_suck_radius and default_spit_speed.
DemoEngine ==
    [width |-> 800, height |-> 600,
     delete_zone |-> [x1 |-> 0, y1 |-> 560, x2 |-> 200, y2 |-> 600],
     mouse_suck_radius |-> 80, default_spit_speed |-> 300, float_bits |-> 30]

None == <<>>
Some(x) == <<x>>

\* ------------------------------------------------------------ helpers
Abs(v) == IF v < 0 THEN -v ELSE v
Min2(a, b) == IF a < b THEN a ELSE b
Max2(a, b) == IF a > b THEN a ELSE b

\* The float nearest to the number n (in units of the smallest step): n itself when
\* it has at most float_bits significant bits, else n rounded to a multiple of the
\* step 2^e that leaves float_bits bits, a tie going to the even multiple.
fl(n) ==
    IF Abs(n) < 2^float_bits THEN n
    ELSE LET a == Abs(n)
             e == CHOOSE k \in 1..(30 - float_bits) :
                     a < 2^(float_bits + k) /\ a >= 2^(float_bits + k - 1)
             step == 2^e
             lo == (a \div step) * step
             rest == a - lo
             up == \/ 2 * rest > step
                   \/ (2 * rest = step /\ (a \div step) % 2 = 1)
             mag == IF up THEN lo + step ELSE lo
         IN  IF n < 0 THEN -mag ELSE mag

clamp(value, min_value, max_value) == Max2(min_value, Min2(max_value, value))

\* Python's round(): to the nearest integer, a tie going to the even one.
PyRound2(s) ==
    IF s % 2 = 0 THEN s \div 2
    ELSE LET f == s \div 2 IN IF f % 2 = 0 THEN f ELSE f + 1

\* Mutant of avg: a tie rounded up.
avg_half_up(a, b) == (a + b + 1) \div 2

\* Mutant of avg: the mean taken from the first value, a + int((b - a) / 2).
avg_from_first(a, b) ==
    IF b >= a THEN a + ((b - a) \div 2) ELSE a - ((a - b) \div 2)

avg(a, b) == PyRound2(a + b)

mix_colors_rgb(c1, c2) ==
    <<clamp(avg(c1[1], c2[1]), 0, 255),
      clamp(avg(c1[2], c2[2]), 0, 255),
      clamp(avg(c1[3], c2[3]), 0, 255)>>

distance_sq(a, b) ==
    LET dx == fl(a[1] - b[1])
        dy == fl(a[2] - b[2])
    IN  fl(fl(dx * dx) + fl(dy * dy))

\* Mutant of contains: the far edges of the rectangle excluded.
contains_open_edges(zone, position) ==
    /\ zone.x1 <= position[1] /\ position[1] < zone.x2
    /\ zone.y1 < position[2] /\ position[2] <= zone.y2

contains(zone, position) ==
    /\ zone.x1 <= position[1] /\ position[1] <= zone.x2
    /\ zone.y1 <= position[2] /\ position[2] <= zone.y2

\* math.hypot and true division, on the inputs where they are exact.
hypot(vx, vy) ==
    CHOOSE n \in 0..(Abs(vx) + Abs(vy)) : n * n = vx * vx + vy * vy
Quot(a, b) == CHOOSE q \in (-Abs(a))..Abs(a) : q * b = a

\* ------------------------------------------------------------- Ball
Ball(id, position, velocity, radius, color) ==
    [id |-> id, position |-> position, velocity |-> velocity,
     radius |-> radius, color |-> color, in_inventory |-> FALSE]

\* Mutant of move: the velocity subtracted instead of added.
move_backwards(b, dt) ==
    IF b.in_inventory THEN b
    ELSE [b EXCEPT !.position =
            <<b.position[1] - b.velocity[1] * dt,
              b.position[2] - b.velocity[2] * dt>>]

move(b, dt) ==
    IF b.in_inventory THEN b
    ELSE [b EXCEPT !.position =
            <<fl(b.position[1] + fl(b.velocity[1] * dt)),
              fl(b.position[2] + fl(b.velocity[2] * dt))>>]

\* The dataclass's generated __eq__ compares the fields; list membership and
\* list.remove accept the same object or an equal one.
BallEq(store, r1, r2) == r1 = r2 \/ store[r1] = store[r2]

InList(store, r, list) == \E k \in 1..Len(list) : BallEq(store, list[k], r)

FirstIndex(store, r, list) ==
    CHOOSE k \in 1..Len(list) :
        /\ BallEq(store, list[k], r)
        /\ \A j \in 1..(k - 1) : ~BallEq(store, list[j], r)

RemoveAt(list, k) ==
    [j \in 1..(Len(list) - 1) |-> IF j < k THEN list[j] ELSE list[j + 1]]

\* list.remove(x): drops the first element equal to x.
list_remove(store, r, list) == RemoveAt(list, FirstIndex(store, r, list))


\* ------------------------------------------------------- engine state
\* The mutable state of one GameLogic object, as a record.
Engine(store, world, inv, next_id) ==
    [store |-> store, balls |-> world, inventory |-> inv, next_ball_id |-> next_id]

Cur == Engine(ball_store, balls, inventory, next_ball_id)

\* ---------------------------------------------------------- Inventory
\* Mutant of add_ball: the ball inserted at the head of the list.
add_ball_front(st, r) ==
    [st EXCEPT !.store[r].in_inventory = TRUE,
               !.inventory = <<r>> \o @]

add_ball(st, r) ==
    [st EXCEPT !.store[r].in_inventory = TRUE,
               !.inventory = Append(@, r)]

\* Mutant of remove_ball: the flag cleared, the list left alone.
remove_ball_flag_only(st, r) ==
    [st EXCEPT !.store[r].in_inventory = FALSE]

remove_ball(st, r) ==
    [st EXCEPT !.inventory = list_remove(st.store, r, @),
               !.store[r].in_inventory = FALSE]

\* Mutant of pop_last: the head of the list taken instead of the tail.
pop_first(st) ==
    IF st.inventory = <<>> THEN [st |-> st, ball |-> None]
    ELSE LET r == Head(st.inventory)
         IN  [st |-> [st EXCEPT !.inventory = Tail(@),
                                !.store[r].in_inventory = FALSE],
              ball |-> Some(r)]

\* Mutant of pop_last: an empty inventory falls back on the newest world ball.
pop_last_or_world(st) ==
    IF st.inventory # <<>>
    THEN LET n == Len(st.inventory)
             r == st.inventory[n]
         IN  [st |-> [st EXCEPT !.inventory = SubSeq(@, 1, n - 1),
                                !.store[r].in_inventory = FALSE],
              ball |-> Some(r)]
    ELSE IF st.balls = <<>> THEN [st |-> st, ball |-> None]
    ELSE LET n == Len(st.balls)
         IN  [st |-> [st EXCEPT !.balls = SubSeq(@, 1, n - 1)],
              ball |-> Some(st.balls[n])]

\* [st, ball]: the state after the call and the Optional[Ball] it returns.
pop_last(st) ==
    IF st.inventory = <<>> THEN [st |-> st, ball |-> None]
    ELSE LET n == Len(st.inventory)
             r == st.inventory[n]
         IN  [st |-> [st EXCEPT !.inventory = SubSeq(@, 1, n - 1),
                                !.store[r].in_inventory = FALSE],
              ball |-> Some(r)]

\* ------------------------------------------------ GameLogic: helpers
\* Mutant of keep_ball_inside_bounds: the position clamped, the velocity left as is.
keep_inside_no_reflect(b) ==
    LET x == b.position[1]
        y == b.position[2]
        nx == IF x - b.radius < 0 THEN b.radius
              ELSE IF x + b.radius > width THEN width - b.radius
              ELSE x
        ny == IF y - b.radius < 0 THEN b.radius
              ELSE IF y + b.radius > height THEN height - b.radius
              ELSE y
    IN  [b EXCEPT !.position = <<nx, ny>>]

keep_ball_inside_bounds(b) ==
    LET x == b.position[1]
        y == b.position[2]
        vx == b.velocity[1]
        vy == b.velocity[2]
        nx == IF fl(x - b.radius) < 0 THEN <<b.radius, Abs(vx)>>
              ELSE IF fl(x + b.radius) > width THEN <<fl(width - b.radius), -Abs(vx)>>
              ELSE <<x, vx>>
        ny == IF fl(y - b.radius) < 0 THEN <<b.radius, Abs(vy)>>
              ELSE IF fl(y + b.radius) > height THEN <<fl(height - b.radius), -Abs(vy)>>
              ELSE <<y, vy>>
    IN  [b EXCEPT !.position = <<nx[1], ny[1]>>, !.velocity = <<nx[2], ny[2]>>]

\* Mutant of move_loop: each ball clamped before it is moved.
RECURSIVE move_loop_clamps_first(_, _, _)
move_loop_clamps_first(store, list, dt) ==
    IF list = <<>> THEN store
    ELSE LET r == Head(list)
         IN  move_loop_clamps_first(
                [store EXCEPT ![r] = move(keep_ball_inside_bounds(@), dt)],
                Tail(list), dt)

\* for ball in list(self.balls): ball.move(dt); self._keep_ball_inside_bounds(ball)
RECURSIVE move_loop(_, _, _)
move_loop(store, list, dt) ==
    IF list = <<>> THEN store
    ELSE LET r == Head(list)
         IN  move_loop([store EXCEPT ![r] = keep_ball_inside_bounds(move(@, dt))],
                       Tail(list), dt)

\* itertools.combinations(list, 2): the pairs in lexicographic order of position.
RECURSIVE combinations2(_, _, _)
combinations2(list, i, j) ==
    IF i >= Len(list) THEN <<>>
    ELSE IF j > Len(list) THEN combinations2(list, i + 1, i + 2)
    ELSE <<(<<list[i], list[j]>>)>> \o combinations2(list, i, j + 1)

\* Mutant of touching: circles that only touch do not count.
touching_strict(b1, b2) ==
    LET min_dist == b1.radius + b2.radius
    IN  distance_sq(b1.position, b2.position) < min_dist * min_dist

touching(b1, b2) ==
    LET min_dist == fl(b1.radius + b2.radius)
    IN  distance_sq(b1.position, b2.position) <= fl(min_dist * min_dist)

RECURSIVE mix_loop(_, _)
mix_loop(store, pairs) ==
    IF pairs = <<>> THEN store
    ELSE LET r1 == Head(pairs)[1]
             r2 == Head(pairs)[2]
             b1 == store[r1]
             b2 == store[r2]
             mixed == mix_colors_rgb(b1.color, b2.color)
         IN  IF b1.in_inventory \/ b2.in_inventory THEN mix_loop(store, Tail(pairs))
             ELSE IF touching(b1, b2)
                  THEN mix_loop([store EXCEPT ![r1].color = mixed, ![r2].color = mixed],
                                Tail(pairs))
                  ELSE mix_loop(store, Tail(pairs))

\* Mutant of mix_colors_on_collisions: the pairs taken in the order of the ball ids
\* instead of the order of the world collection.
mix_in_id_order(st) ==
    LET n == Len(st.balls)
        by_id == CHOOSE f \in [1..n -> {st.balls[k] : k \in 1..n}] :
                    /\ \A k \in 1..n : \E m \in 1..n : f[m] = st.balls[k]
                    /\ \A k, m \in 1..n : k < m => st.store[f[k]].id <= st.store[f[m]].id
    IN  [st EXCEPT !.store = mix_loop(st.store, combinations2(by_id, 1, 2))]

mix_colors_on_collisions(st) ==
    [st EXCEPT !.store = mix_loop(st.store, combinations2(st.balls, 1, 2))]

\* Mutant of remove_balls_in_delete_zone: the inventory purged as well.
remove_in_zone_everywhere(st) ==
    [st EXCEPT
        !.balls =
            SelectSeq(st.balls, LAMBDA r : ~contains(delete_zone, st.store[r].position)),
        !.inventory =
            SelectSeq(st.inventory, LAMBDA r : ~contains(delete_zone, st.store[r].position))]

remove_balls_in_delete_zone(st) ==
    [st EXCEPT !.balls =
        SelectSeq(st.balls, LAMBDA r : ~contains(delete_zone, st.store[r].position))]

\* --------------------------------------------- GameLogic: operations
\* Each yields [st, ret]: the engine after the call and the value returned.
\* Mutant of do_create_ball: the id taken from the size of the world collection.
create_ball_id_from_world(st, position, velocity, radius, color) ==
    LET r == Cardinality(DOMAIN st.store) + 1
    IN  [st |-> [st EXCEPT
                   !.store = [k \in DOMAIN st.store \cup {r} |->
                                IF k = r
                                THEN Ball(Len(st.balls) + 1, position, velocity, radius, color)
                                ELSE st.store[k]],
                   !.next_ball_id = @ + 1,
                   !.balls = Append(@, r)],
         ret |-> Some(r)]

do_create_ball(st, position, velocity, radius, color) ==
    LET r == Cardinality(DOMAIN st.store) + 1
    IN  [st |-> [st EXCEPT
                   !.store = [k \in DOMAIN st.store \cup {r} |->
                                IF k = r
                                THEN Ball(st.next_ball_id, position, velocity, radius, color)
                                ELSE st.store[k]],
                   !.next_ball_id = @ + 1,
                   !.balls = Append(@, r)],
         ret |-> Some(r)]

\* Mutant of do_update: the delete zone tested on the moved position, before the
\* wall clamp.
update_tests_zone_before_clamp(st, dt) ==
    LET raw == [k \in DOMAIN st.store |-> move(st.store[k], dt)]
        keep == SelectSeq(st.balls, LAMBDA r : ~contains(delete_zone, raw[r].position))
        moved == [st EXCEPT !.store = move_loop(st.store, st.balls, dt)]
    IN  [st |-> [mix_colors_on_collisions(moved) EXCEPT !.balls = keep],
         ret |-> None]

\* Mutant of do_update: the purge run before the collision pass.
update_purges_before_mix(st, dt) ==
    LET moved == [st EXCEPT !.store = move_loop(st.store, st.balls, dt)]
    IN  [st |-> mix_colors_on_collisions(remove_balls_in_delete_zone(moved)),
         ret |-> None]

do_update(st, dt) ==
    LET moved == [st EXCEPT !.store = move_loop(st.store, st.balls, dt)]
    IN  [st |-> remove_balls_in_delete_zone(mix_colors_on_collisions(moved)),
         ret |-> None]

\* The loop of suck_balls_with_mouse over the snapshot list(self.balls); acc is
\* [st, ret] with ret the list `moved`.
RECURSIVE suck_loop(_, _, _, _, _)
suck_loop(acc, snapshot, mouse_pos, radius_sq, max_count) ==
    IF snapshot = <<>> THEN acc
    ELSE IF max_count # None /\ Len(acc.ret) >= max_count[1] THEN acc
    ELSE LET r == Head(snapshot)
         IN  IF distance_sq(acc.st.store[r].position, mouse_pos) <= radius_sq
             THEN suck_loop(
                    [st |-> add_ball([acc.st EXCEPT
                                        !.balls = list_remove(acc.st.store, r, @)], r),
                     ret |-> Append(acc.ret, r)],
                    Tail(snapshot), mouse_pos, radius_sq, max_count)
             ELSE suck_loop(acc, Tail(snapshot), mouse_pos, radius_sq, max_count)

\* Mutant of do_suck_balls_with_mouse: max_count is not looked at.
suck_ignores_max_count(st, mouse_pos, radius, max_count) ==
    LET rad == IF radius = None THEN mouse_suck_radius ELSE radius[1]
    IN  suck_loop([st |-> st, ret |-> <<>>], st.balls, mouse_pos, rad * rad, None)

do_suck_balls_with_mouse(st, mouse_pos, radius, max_count) ==
    LET rad == IF radius = None THEN mouse_suck_radius ELSE radius[1]
    IN  suck_loop([st |-> st, ret |-> <<>>], st.balls, mouse_pos, fl(rad * rad), max_count)

\* Mutant of spit_velocity: the default direction points down the screen, (0, 1).
spit_velocity_down(direction, speed) ==
    LET sp == IF speed = None THEN default_spit_speed ELSE speed[1]
        dflt == <<0, 1>>
        unit == IF direction = None THEN dflt
                ELSE LET vx == direction[1][1]
                         vy == direction[1][2]
                         length == hypot(vx, vy)
                     IN  IF length = 0 THEN dflt
                         ELSE <<Quot(vx, length), Quot(vy, length)>>
    IN  <<unit[1] * sp, unit[2] * sp>>

\* The velocity spit_ball_from_inventory gives the ball.
spit_velocity(direction, speed) ==
    LET sp == IF speed = None THEN default_spit_speed ELSE speed[1]
        up == <<0, -1>>
        unit == IF direction = None THEN up
                ELSE LET vx == direction[1][1]
                         vy == direction[1][2]
                         length == hypot(vx, vy)
                     IN  IF length = 0 THEN up
                         ELSE <<Quot(vx, length), Quot(vy, length)>>
    IN  <<fl(unit[1] * sp), fl(unit[2] * sp)>>

\* The tail of spit_ball_from_inventory, once ball r is out of the inventory.
launch(st, r, mouse_pos, direction, speed) ==
    [st |-> [st EXCEPT !.store[r].position = mouse_pos,
                       !.store[r].velocity = spit_velocity(direction, speed),
                       !.store[r].in_inventory = FALSE,
                       !.balls = Append(@, r)],
     ret |-> Some(r)]

\* Mutant of do_spit_ball_from_inventory: a given ball is launched whether or not the
\* inventory holds it.
spit_launches_absent_ball(st, mouse_pos, direction, speed, ball) ==
    IF ball # None
    THEN launch(IF InList(st.store, ball[1], st.inventory)
                THEN remove_ball(st, ball[1]) ELSE st,
                ball[1], mouse_pos, direction, speed)
    ELSE LET popped == pop_last(st)
         IN  IF popped.ball = None THEN [st |-> st, ret |-> None]
             ELSE launch(popped.st, popped.ball[1], mouse_pos, direction, speed)

\* Mutant of do_spit_ball_from_inventory: a given ball the inventory does not hold is
\* treated as no ball given.
spit_absent_ball_pops(st, mouse_pos, direction, speed, ball) ==
    IF ball # None /\ InList(st.store, ball[1], st.inventory)
    THEN launch(remove_ball(st, ball[1]), ball[1], mouse_pos, direction, speed)
    ELSE LET popped == pop_last(st)
         IN  IF popped.ball = None THEN [st |-> st, ret |-> None]
             ELSE launch(popped.st, popped.ball[1], mouse_pos, direction, speed)

do_spit_ball_from_inventory(st, mouse_pos, direction, speed, ball) ==
    IF ball # None
    THEN IF ~InList(st.store, ball[1], st.inventory)
         THEN [st |-> st, ret |-> None]
         ELSE launch(remove_ball(st, ball[1]), ball[1], mouse_pos, direction, speed)
    ELSE LET popped == pop_last(st)
         IN  IF popped.ball = None THEN [st |-> st, ret |-> None]
             ELSE launch(popped.st, popped.ball[1], mouse_pos, direction, speed)

\* -------------------------------------------------------------- inputs
\* create_ball arguments: <<position, velocity, radius, color>>.
BallTemplates ==
    { <<(<<100, 100>>), (<<50, 0>>), 20, (<<255, 0, 0>>)>>,
      <<(<<240, 100>>), (<<-50, 0>>), 20, (<<0, 0, 255>>)>>,
      <<(<<200, 460>>), (<<0, 100>>), 20, (<<201, 0, 0>>)>>,
      <<(<<0, 300>>), (<<-50, 0>>), 20, (<<0, 0, 0>>)>>,
      <<(<<150, 470>>), (<<0, 50>>), 50, (<<0, 255, 0>>)>> }

Dts == {1, 2}

\* suck_balls_with_mouse arguments: <<mouse_pos, radius, max_count>>.
SuckArgs ==
    { <<(<<150, 100>>), None, None>>,
      <<(<<150, 100>>), None, Some(1)>>,
      <<(<<150, 100>>), Some(50), Some(0)>>,
      <<(<<150, 100>>), Some(50), None>>,
      <<(<<200, 500>>), None, Some(-1)>>,
      <<(<<200, 500>>), None, None>> }

\* spit_ball_from_inventory arguments: <<mouse_pos, direction, speed>>.
SpitArgs ==
    { <<(<<400, 300>>), Some(<<1, 0>>), None>>,
      <<(<<200, 560>>), Some(<<0, 0>>), Some(100)>>,
      <<(<<150, 100>>), None, None>>,
      <<(<<400, 300>>), Some(<<-3, 0>>), Some(100)>> }

\* The arguments that are also tried with an explicit `ball`.
SpitArgsByBall == { <<(<<400, 300>>), Some(<<-3, 0>>), Some(100)>> }

\* ------------------------------------------------------------- actions
\* One public call: its effect on the engine, with the call, its result and the
\* state it began in recorded.
Perform(op, args, res) ==
    /\ old' = Cur
    /\ call' = [op |-> op, args |-> args]
    /\ ret' = res.ret
    /\ ball_store' = res.st.store
    /\ balls' = res.st.balls
    /\ inventory' = res.st.inventory
    /\ next_ball_id' = res.st.next_ball_id
    /\ ncalls' = ncalls + 1
    /\ UNCHANGED config

Apply(op, args, res) ==
    /\ ncalls < MaxCalls
    /\ Perform(op, args, res)

create_ball ==
    /\ Cardinality(DOMAIN ball_store) < MaxBalls
    /\ \E t \in BallTemplates :
         Apply("create_ball", t, do_create_ball(Cur, t[1], t[2], t[3], t[4]))

update ==
    \E dt \in Dts : Apply("update", <<dt>>, do_update(Cur, dt))

suck_balls_with_mouse ==
    \E a \in SuckArgs :
        Apply("suck_balls_with_mouse", a, do_suck_balls_with_mouse(Cur, a[1], a[2], a[3]))

\* The `ball` argument: None, or any ball the engine ever created (the caller may
\* still hold a ball that is in the world or was purged).
spit_ball_from_inventory ==
    \E a \in SpitArgs :
      \E b \in {None} \cup (IF a \in SpitArgsByBall
                            THEN {Some(r) : r \in DOMAIN ball_store} ELSE {}) :
        Apply("spit_ball_from_inventory", <<a[1], a[2], a[3], b>>,
              do_spit_ball_from_inventory(Cur, a[1], a[2], a[3], b))

Init ==
    /\ config = DemoEngine
    /\ ball_store = <<>>
    /\ balls = <<>>
    /\ inventory = <<>>
    /\ next_ball_id = 1
    /\ call = [op |-> "init", args |-> <<>>]
    /\ ret = None
    /\ old = Engine(<<>>, <<>>, <<>>, 1)
    /\ ncalls = 0

Next ==
    \/ create_ball
    \/ update
    \/ suck_balls_with_mouse
    \/ spit_ball_from_inventory

Spec == Init /\ [][Next]_vars

\* ------------------------------------------- mix_colors_rgb on its own
\* A second specification: the pure function mix_colors_rgb applied to a pair of
\* colours, in the order given and in the other order; the first channel ranges
\* over all of 0..255 on both sides.  ret holds the two results.
MixInputs ==
    { <<(<<a, 255 - a, 0>>), (<<b, b, 255>>)>> : a \in 0..255, b \in 0..255 }

InitMix ==
    /\ config = DemoEngine
    /\ ball_store = <<>>
    /\ balls = <<>>
    /\ inventory = <<>>
    /\ next_ball_id = 1
    /\ call \in { [op |-> "colors", args |-> i] : i \in MixInputs }
    /\ ret = None
    /\ old = Engine(<<>>, <<>>, <<>>, 1)
    /\ ncalls = 0

mix_colors_rgb_call ==
    /\ call.op = "colors"
    /\ call' = [op |-> "mix_colors_rgb", args |-> call.args]
    /\ ret' = <<mix_colors_rgb(call.args[1], call.args[2]),
                mix_colors_rgb(call.args[2], call.args[1])>>
    /\ UNCHANGED <<config, ball_store, balls, inventory, next_ball_id, old, ncalls>>

NextMix == mix_colors_rgb_call

SpecMix == InitMix /\ [][NextMix]_vars

\* --------------------------------------------------- the demo script
\* A third specification: the script under `if __name__ == "__main__"`.  Its
\* update(1 / 60.0) moves a ball by 5/6 of a unit, so this specification measures
\* lengths in sixths of a unit and time in frames of 1/60 s, where every number of
\* the script is an integer: a length L is written 6 * L, a velocity V (units/s)
\* is written V / 10, and dt = 1/60 s is written 1.  The code is unchanged by this
\* change of units: every comparison it makes is between lengths.
DemoFrames == 60

\* GameLogic(width=800, height=600, delete_zone=DeleteZone(0, 560, 200, 600)).
DemoEngineInFrames ==
    [width |-> 4800, height |-> 3600,
     delete_zone |-> [x1 |-> 0, y1 |-> 3360, x2 |-> 1200, y2 |-> 3600],
     mouse_suck_radius |-> 480, default_spit_speed |-> 30, float_bits |-> 30]

\* create_ball((100, 100), (50, 0), 20, (255, 0, 0)) and
\* create_ball((200, 100), (-50, 0), 20, (0, 0, 255)).
DemoBalls ==
    << <<(<<600, 600>>), (<<5, 0>>), 120, (<<255, 0, 0>>)>>,
       <<(<<1200, 600>>), (<<-5, 0>>), 120, (<<0, 0, 255>>)>> >>

InitDemo ==
    /\ config = DemoEngineInFrames
    /\ ball_store = <<>>
    /\ balls = <<>>
    /\ inventory = <<>>
    /\ next_ball_id = 1
    /\ call = [op |-> "init", args |-> <<>>]
    /\ ret = None
    /\ old = Engine(<<>>, <<>>, <<>>, 1)
    /\ ncalls = 0

demo_create_ball ==
    /\ ncalls < Len(DemoBalls)
    /\ LET t == DemoBalls[ncalls + 1]
       IN  Perform("create_ball", t, do_create_ball(Cur, t[1], t[2], t[3], t[4]))

\* for i in range(60): logic.update(1 / 60.0)
demo_update ==
    /\ ncalls >= Len(DemoBalls)
    /\ ncalls < Len(DemoBalls) + DemoFrames
    /\ call.op \in {"create_ball", "update"}
    /\ Perform("update", <<1>>, do_update(Cur, 1))

\* sucked = logic.suck_balls_with_mouse(mouse_pos=(150, 100)); the specification
\* also lets the frame loop be left early, after any number of frames.
demo_suck ==
    /\ ncalls >= Len(DemoBalls)
    /\ call.op \in {"create_ball", "update"}
    /\ Perform("suck_balls_with_mouse", <<(<<900, 600>>), None, None>>,
               do_suck_balls_with_mouse(Cur, <<900, 600>>, None, None))

\* if sucked: logic.spit_ball_from_inventory(mouse_pos=(400, 300), direction=(1, 0))
demo_spit ==
    /\ call.op = "suck_balls_with_mouse"
    /\ ret # <<>>
    /\ Perform("spit_ball_from_inventory",
               <<(<<2400, 1800>>), Some(<<1, 0>>), None, None>>,
               do_spit_ball_from_inventory(Cur, <<2400, 1800>>, Some(<<1, 0>>), None, None))

NextDemo ==
    \/ demo_create_ball
    \/ demo_update
    \/ demo_suck
    \/ demo_spit

SpecDemo == InitDemo /\ [][NextDemo]_vars

\* ------------------------------------------- the world order after a spit
\* A fourth specification: the same engine and the same calls with fewer inputs and
\* one call more, deep enough for three balls to be created, one of them sucked and
\* spat back to the tail of the world collection, and the three to collide.
MaxReorderCalls == 6

ReorderTemplates ==
    { <<(<<100, 100>>), (<<50, 0>>), 20, (<<255, 0, 0>>)>>,
      <<(<<240, 100>>), (<<-50, 0>>), 20, (<<0, 0, 255>>)>>,
      <<(<<170, 110>>), (<<0, 0>>), 20, (<<0, 255, 0>>)>> }

reorder_create_ball ==
    /\ ncalls < MaxReorderCalls
    /\ Cardinality(DOMAIN ball_store) < MaxBalls
    /\ \E t \in ReorderTemplates :
         Perform("create_ball", t, do_create_ball(Cur, t[1], t[2], t[3], t[4]))

reorder_update ==
    /\ ncalls < MaxReorderCalls
    /\ Perform("update", <<1>>, do_update(Cur, 1))

reorder_suck ==
    /\ ncalls < MaxReorderCalls
    /\ Perform("suck_balls_with_mouse", <<(<<150, 100>>), None, Some(1)>>,
               do_suck_balls_with_mouse(Cur, <<150, 100>>, None, Some(1)))

reorder_spit ==
    /\ ncalls < MaxReorderCalls
    /\ Perform("spit_ball_from_inventory",
               <<(<<100, 100>>), Some(<<1, 0>>), Some(50), None>>,
               do_spit_ball_from_inventory(Cur, <<100, 100>>, Some(<<1, 0>>), Some(50), None))

NextReorder ==
    \/ reorder_create_ball
    \/ reorder_update
    \/ reorder_suck
    \/ reorder_spit

SpecReorder == Init /\ [][NextReorder]_vars

\* ------------------------------------------------- rounding at the walls
\* A fifth specification: the same engine and the same calls on a float of 4
\* significant bits, a scale model of the double: the numbers below 16 are exact,
\* those from 16 to 32 are the even ones, and so on.  Every input is such a float.
\* The arena is 16 x 16, its width a power of two as 1024 is.
RoundEngine ==
    [width |-> 16, height |-> 16,
     delete_zone |-> [x1 |-> 0, y1 |-> 12, x2 |-> 4, y2 |-> 16],
     mouse_suck_radius |-> 8, default_spit_speed |-> 2, float_bits |-> 4]

RoundTemplates ==
    { <<(<<14, 8>>), (<<0, 0>>), 3, (<<255, 0, 0>>)>>,
      <<(<<12, 8>>), (<<2, 0>>), 3, (<<0, 0, 255>>)>>,
      <<(<<20, 8>>), (<<-1, 0>>), 3, (<<0, 255, 0>>)>>,
      <<(<<8, 14>>), (<<0, 1>>), 3, (<<0, 0, 0>>)>>,
      <<(<<8, 8>>), (<<0, 0>>), 10, (<<201, 0, 0>>)>> }

RoundDts == {1, -1, 64}

InitRound ==
    /\ config = RoundEngine
    /\ ball_store = <<>>
    /\ balls = <<>>
    /\ inventory = <<>>
    /\ next_ball_id = 1
    /\ call = [op |-> "init", args |-> <<>>]
    /\ ret = None
    /\ old = Engine(<<>>, <<>>, <<>>, 1)
    /\ ncalls = 0

round_create_ball ==
    /\ Cardinality(DOMAIN ball_store) < MaxBalls
    /\ \E t \in RoundTemplates :
         Apply("create_ball", t, do_create_ball(Cur, t[1], t[2], t[3], t[4]))

round_update ==
    \E dt \in RoundDts : Apply("update", <<dt>>, do_update(Cur, dt))

round_suck ==
    Apply("suck_balls_with_mouse", <<(<<14, 8>>), None, None>>,
          do_suck_balls_with_mouse(Cur, <<14, 8>>, None, None))

round_spit ==
    Apply("spit_ball_from_inventory", <<(<<14, 8>>), None, None, None>>,
          do_spit_ball_from_inventory(Cur, <<14, 8>>, None, None, None))

NextRound ==
    \/ round_create_ball
    \/ round_update
    \/ round_suck
    \/ round_spit

SpecRound == InitRound /\ [][NextRound]_vars

\* =============================================================== claims
\* Vocabulary of the claims, stated on the variables alone.
Occurrences(list, r) == Cardinality({k \in 1..Len(list) : list[k] = r})
Elems(list) == {list[k] : k \in 1..Len(list)}
Created == DOMAIN ball_store
HeldNow(r) == r \in Elems(balls) \cup Elems(inventory)
HeldBefore(r) == r \in Elems(old.balls) \cup Elems(old.inventory)
InZone(p) == 0 <= p[1] /\ p[1] <= 200 /\ 560 <= p[2] /\ p[2] <= 600
EngineUnchanged ==
    /\ ball_store = old.store
    /\ balls = old.balls
    /\ inventory = old.inventory
    /\ next_ball_id = old.next_ball_id
Without(list, gone) == SelectSeq(list, LAMBDA r : r \notin gone)

\* C1: every ball created and not purged by the delete zone occurs exactly once,
\* in exactly one of the world collection and the inventory, and its in_inventory
\* flag says which; a ball leaves both collections only by the purge of update.
C1_OneContainer ==
    /\ Elems(balls) \cup Elems(inventory) \subseteq Created
    /\ \A r \in Created :
         /\ Occurrences(balls, r) + Occurrences(inventory, r) <= 1
         /\ HeldNow(r) => (ball_store[r].in_inventory <=> r \in Elems(inventory))
    /\ \A r \in Created \ DOMAIN old.store : HeldNow(r)
    /\ \A r \in DOMAIN old.store :
         (HeldBefore(r) /\ ~HeldNow(r)) =>
            /\ call.op = "update"
            /\ InZone(ball_store[r].position)

C1_Witness ==
    /\ call.op = "spit_ball_from_inventory"
    /\ ret # None
    /\ ret[1] \in Elems(balls)
    /\ \E r \in Created : ~HeldNow(r)

\* C2: Deleted is absorbing and entered only from the world during update: a ball
\* in neither collection stays in neither, whatever is called next, and
\* spit_ball_from_inventory given such a ball returns None.
C2_DeletedAbsorbing ==
    \A r \in DOMAIN old.store :
        /\ ~HeldBefore(r) =>
              /\ ~HeldNow(r)
              /\ (call.op = "spit_ball_from_inventory" /\ call.args[4] = Some(r))
                    => ret = None
        /\ (HeldBefore(r) /\ ~HeldNow(r)) =>
              /\ call.op = "update"
              /\ r \in Elems(old.balls)

C2_Witness ==
    /\ call.op = "spit_ball_from_inventory"
    /\ call.args[4] # None
    /\ call.args[4][1] \in DOMAIN old.store
    /\ ~HeldBefore(call.args[4][1])
    /\ old.inventory # <<>>
    /\ ret = None

\* C3: update leaves the inventory as it was: the same balls in the same order,
\* each with every field unchanged, also when a stored ball lies in the delete zone
\* or is overlapped by a world ball.
C3_UpdateKeepsInventory ==
    call.op = "update" =>
        /\ inventory = old.inventory
        /\ \A r \in Elems(old.inventory) : ball_store[r] = old.store[r]

C3_Witness ==
    /\ call.op = "update"
    /\ \E r \in Elems(old.inventory), w \in Elems(old.balls) :
         /\ old.store[r].velocity # <<0, 0>>
         /\ old.store[r].color # ball_store[w].color
         /\ distance_sq(old.store[r].position, ball_store[w].position)
              <= (old.store[r].radius + ball_store[w].radius)
                   * (old.store[r].radius + ball_store[w].radius)

\* The other case of C3: update with a moving ball stored inside the delete zone.
C3_ZoneCase ==
    /\ call.op = "update"
    /\ \E r \in Elems(old.inventory) :
         /\ InZone(old.store[r].position)
         /\ old.store[r].velocity # <<0, 0>>

\* C4: after suck_balls_with_mouse no returned ball is in the world, each is flagged
\* in_inventory and is in the inventory, the world shrank by the number returned and
\* kept its order, and the inventory grew by the returned balls at its tail, in order.
C4_SuckMoves ==
    call.op = "suck_balls_with_mouse" =>
        /\ \A k \in 1..Len(ret) :
             /\ ret[k] \notin Elems(balls)
             /\ ball_store[ret[k]].in_inventory
             /\ ret[k] \in Elems(inventory)
        /\ Len(balls) = Len(old.balls) - Len(ret)
        /\ inventory = old.inventory \o ret
        /\ balls = Without(old.balls, Elems(ret))

C4_Witness ==
    /\ call.op = "suck_balls_with_mouse"
    /\ Len(ret) >= 2
    /\ old.inventory # <<>>

\* C5: when update returns, no world ball lies in the delete zone (edges included):
\* each ball of the world before the call whose moved and clamped position is in the
\* zone is in neither collection, and every other one is still in the world.
C5_PurgeByZone ==
    call.op = "update" =>
        /\ \A r \in Elems(balls) : ~InZone(ball_store[r].position)
        /\ \A r \in Elems(old.balls) :
             IF InZone(ball_store[r].position)
             THEN ~HeldNow(r)
             ELSE r \in Elems(balls)

C5_Witness ==
    /\ call.op = "update"
    /\ \E r \in Elems(old.balls) :
         /\ ~HeldNow(r)
         /\ ball_store[r].position = <<200, 560>>
    /\ balls # <<>>

\* C6: spit_ball_from_inventory with no `ball` on an empty inventory returns None and
\* changes neither the world, nor any ball, nor the inventory, nor the id counter.
C6_SpitEmptyInventory ==
    (/\ call.op = "spit_ball_from_inventory"
     /\ call.args[4] = None
     /\ old.inventory = <<>>)
        => (ret = None /\ EngineUnchanged)

C6_Witness ==
    /\ call.op = "spit_ball_from_inventory"
    /\ call.args[4] = None
    /\ old.inventory = <<>>
    /\ old.balls # <<>>
    /\ ret = None

\* C7: spit_ball_from_inventory with a `ball` that is not in the inventory (a world
\* ball or a purged one) returns None and changes nothing at all.
C7_SpitAbsentBall ==
    (/\ call.op = "spit_ball_from_inventory"
     /\ call.args[4] # None
     /\ call.args[4][1] \notin Elems(old.inventory))
        => (ret = None /\ EngineUnchanged)

C7_Witness ==
    /\ call.op = "spit_ball_from_inventory"
    /\ call.args[4] # None
    /\ call.args[4][1] \in Elems(old.balls)
    /\ old.inventory # <<>>
    /\ ret = None

\* C8: spit_ball_from_inventory with no `ball` on a non-empty inventory returns the
\* ball at the inventory's tail (the last one added); that ball is then flagged out
\* of the inventory, is the last element of the world, sits at mouse_pos, and for a
\* non-zero direction has a velocity of length speed (default_spit_speed when speed
\* is None) pointing along direction; the rest of the inventory keeps its order.
C8_SpitLast ==
    (/\ call.op = "spit_ball_from_inventory"
     /\ call.args[4] = None
     /\ old.inventory # <<>>)
        => LET n == Len(old.inventory)
               r == old.inventory[n]
               d == call.args[2]
               sp == IF call.args[3] = None THEN 300 ELSE call.args[3][1]
               v == ball_store[r].velocity
           IN  /\ ret = Some(r)
               /\ ~ball_store[r].in_inventory
               /\ balls = Append(old.balls, r)
               /\ ball_store[r].position = call.args[1]
               /\ inventory = SubSeq(old.inventory, 1, n - 1)
               /\ (d # None /\ d[1] # <<0, 0>>) =>
                    /\ v[1] * d[1][2] = v[2] * d[1][1]
                    /\ v[1] * d[1][1] + v[2] * d[1][2] >= 0
                    /\ v[1] * v[1] + v[2] * v[2] = sp * sp

C8_Witness ==
    /\ call.op = "spit_ball_from_inventory"
    /\ call.args[4] = None
    /\ Len(old.inventory) >= 2
    /\ old.balls # <<>>
    /\ call.args[2] = Some(<<-3, 0>>)
    /\ ret # None
    /\ ball_store[ret[1]].velocity = <<-100, 0>>

\* C9 as stated: each channel of mix_colors_rgb is the mean rounded half away from
\* zero: (a+b)/2 when a+b is even and (a+b+1)/2 when it is odd, so that 201 and 0
\* give 101.
C9_HalfAwayFromZero ==
    call.op = "mix_colors_rgb" =>
        \A k \in 1..3 :
            LET sum == call.args[1][k] + call.args[2][k]
                m == ret[1][k]
            IN  IF sum % 2 = 0 THEN 2 * m = sum ELSE 2 * m = sum + 1

\* C9, amended: each channel of mix_colors_rgb is the mean rounded to the nearest
\* integer, a tie going to the even neighbour: (a+b)/2 when a+b is even, and when it
\* is odd the even one of (a+b-1)/2 and (a+b+1)/2, so that 201 and 0 give 100 while
\* 203 and 0 give 102 and 200 and 0 give 100.
C9_HalfToEven ==
    call.op = "mix_colors_rgb" =>
        \A k \in 1..3 :
            LET sum == call.args[1][k] + call.args[2][k]
                m == ret[1][k]
            IN  IF sum % 2 = 0 THEN 2 * m = sum
                ELSE /\ (2 * m = sum - 1 \/ 2 * m = sum + 1)
                     /\ m % 2 = 0

C9_Witness ==
    /\ call.op = "mix_colors_rgb"
    /\ call.args[1][1] = 201
    /\ call.args[2][1] = 0
    /\ ret[1][1] = 100

\* Move and wall clamp of one axis, restated for C10: <<position, velocity>>.
AxisAfter(p, v, rad, dim, dt) ==
    LET q == p + v * dt
    IN  IF q - rad < 0 THEN <<rad, Abs(v)>>
        ELSE IF q + rad > dim THEN <<dim - rad, -Abs(v)>>
        ELSE <<q, v>>

Touch(r1, r2) ==
    LET b1 == ball_store[r1]
        b2 == ball_store[r2]
    IN  distance_sq(b1.position, b2.position)
            <= (b1.radius + b2.radius) * (b1.radius + b2.radius)

TouchingPairs ==
    {p \in Elems(old.balls) \X Elems(old.balls) : p[1] < p[2] /\ Touch(p[1], p[2])}

\* C10: after update every ball that was in the world has exactly the position and
\* velocity that move and wall clamp give it; when exactly one pair of them touches
\* or overlaps there (touching included), both end with mix_colors_rgb of their two
\* colours before the call ((255,0,0) and (0,0,255) give (128,0,128)); a ball that
\* touches no other keeps its colour.
C10_PairMix ==
    call.op = "update" =>
        /\ \A r \in Elems(old.balls) :
             LET b == old.store[r]
                 dt == call.args[1]
                 ax == AxisAfter(b.position[1], b.velocity[1], b.radius, 800, dt)
                 ay == AxisAfter(b.position[2], b.velocity[2], b.radius, 600, dt)
             IN  /\ ball_store[r].position = <<ax[1], ay[1]>>
                 /\ ball_store[r].velocity = <<ax[2], ay[2]>>
        /\ Cardinality(TouchingPairs) = 1 =>
             \A p \in TouchingPairs :
                LET c1 == old.store[p[1]].color
                    c2 == old.store[p[2]].color
                IN  /\ ball_store[p[1]].color = mix_colors_rgb(c1, c2)
                    /\ ball_store[p[2]].color = mix_colors_rgb(c1, c2)
                    /\ ({c1, c2} = {<<255, 0, 0>>, <<0, 0, 255>>}
                          => ball_store[p[1]].color = <<128, 0, 128>>)
        /\ \A r \in Elems(old.balls) :
             (\A q \in Elems(old.balls) \ {r} : ~Touch(r, q))
                => ball_store[r].color = old.store[r].color

C10_Witness ==
    /\ call.op = "update"
    /\ Len(old.balls) = 3
    /\ Cardinality(TouchingPairs) = 1
    /\ \E p \in TouchingPairs :
         /\ old.store[p[1]].color = <<255, 0, 0>>
         /\ old.store[p[2]].color = <<0, 0, 255>>
         /\ ball_store[p[1]].color = <<128, 0, 128>>
         /\ ball_store[p[2]].color = <<128, 0, 128>>
         /\ distance_sq(ball_store[p[1]].position, ball_store[p[2]].position) = 1600

\* C11: in update, for every world ball and each axis on its own: when the moved
\* position minus the radius is below 0 the ball ends at position = radius with
\* velocity |v|; otherwise when the moved position plus the radius exceeds the
\* dimension it ends at dimension - radius with velocity -|v|; otherwise the moved
\* position and the velocity stand.  A ball created at (0, y) with velocity (-v, 0)
\* has x = radius and a velocity x >= 0 after one update.
C11_WallClamp ==
    call.op = "update" =>
        \A r \in Elems(old.balls) : \A axis \in 1..2 :
            LET b == old.store[r]
                dim == IF axis = 1 THEN 800 ELSE 600
                moved == b.position[axis] + b.velocity[axis] * call.args[1]
                p == ball_store[r].position[axis]
                v == ball_store[r].velocity[axis]
            IN  /\ moved - b.radius < 0 =>
                     (p = b.radius /\ v = Abs(b.velocity[axis]) /\ v >= 0)
                /\ (moved - b.radius >= 0 /\ moved + b.radius > dim) =>
                     (p = dim - b.radius /\ v = -Abs(b.velocity[axis]) /\ v <= 0)
                /\ (moved - b.radius >= 0 /\ moved + b.radius <= dim) =>
                     (p = moved /\ v = b.velocity[axis])

C11_Witness ==
    /\ call.op = "update"
    /\ ncalls = 2
    /\ \E r \in Elems(old.balls) :
         /\ old.store[r].position = <<0, 300>>
         /\ old.store[r].velocity = <<-50, 0>>
         /\ ball_store[r].position = <<20, 300>>
         /\ ball_store[r].velocity = <<50, 0>>

\* C12: ball ids are unique and never reused: the k-th create_ball returns a ball
\* with id k, only create_ball changes the id counter (by one), no call changes the
\* id of an existing ball, and no two balls ever created, purged ones included,
\* share an id.
C12_UniqueIds ==
    /\ \A r1, r2 \in Created : r1 # r2 => ball_store[r1].id # ball_store[r2].id
    /\ \A r \in DOMAIN old.store : ball_store[r].id = old.store[r].id
    /\ call.op = "create_ball" =>
         /\ next_ball_id = old.next_ball_id + 1
         /\ ret # None
         /\ ret[1] \notin DOMAIN old.store
         /\ ball_store[ret[1]].id = Cardinality(DOMAIN old.store) + 1
    /\ call.op \in {"update", "suck_balls_with_mouse", "spit_ball_from_inventory"} =>
         /\ next_ball_id = old.next_ball_id
         /\ Created = DOMAIN old.store

C12_Witness ==
    /\ call.op = "create_ball"
    /\ \E r \in DOMAIN old.store : ~HeldBefore(r)
    /\ old.inventory # <<>>
    /\ ball_store[ret[1]].id = 3

\* C13: mix_colors_rgb is commutative and keeps the range: for colours with integer
\* channels in 0..255, mix_colors_rgb(c1, c2) = mix_colors_rgb(c2, c1) and every
\* channel of the result is an integer in 0..255.
C13_MixCommutes ==
    call.op = "mix_colors_rgb" =>
        /\ ret[1] = ret[2]
        /\ \A k \in 1..3 : ret[1][k] \in 0..255 /\ ret[2][k] \in 0..255

C13_Witness ==
    /\ call.op = "mix_colors_rgb"
    /\ call.args[1] = <<254, 1, 0>>
    /\ call.args[2] = <<1, 1, 255>>
    /\ ret = <<(<<128, 1, 128>>), (<<128, 1, 128>>)>>

\* C14: spit_ball_from_inventory with a ball to take (the inventory's tail, or a
\* given ball the inventory holds) and a direction that is None or the zero vector
\* returns that ball, now the last element of the world and out of the inventory,
\* with velocity (0, -speed): straight up at the given or the default speed.
C14_DefaultDirection ==
    (/\ call.op = "spit_ball_from_inventory"
     /\ call.args[2] \in {None, Some(<<0, 0>>)}
     /\ old.inventory # <<>>
     /\ (call.args[4] = None \/ call.args[4][1] \in Elems(old.inventory)))
        => LET chosen == IF call.args[4] = None
                         THEN old.inventory[Len(old.inventory)]
                         ELSE call.args[4][1]
               sp == IF call.args[3] = None THEN 300 ELSE call.args[3][1]
           IN  /\ ret = Some(chosen)
               /\ balls = Append(old.balls, chosen)
               /\ chosen \notin Elems(inventory)
               /\ ball_store[chosen].velocity = <<0, -sp>>

C14_Witness ==
    /\ call.op = "spit_ball_from_inventory"
    /\ call.args[2] = Some(<<0, 0>>)
    /\ call.args[3] = Some(100)
    /\ ret # None
    /\ old.store[ret[1]].velocity[1] # 0
    /\ ball_store[ret[1]].velocity = <<0, -100>>

\* The other case of C14: no direction and no speed given.
C14_NoneCase ==
    /\ call.op = "spit_ball_from_inventory"
    /\ call.args[2] = None
    /\ call.args[3] = None
    /\ ret # None
    /\ ball_store[ret[1]].velocity = <<0, -300>>

\* C15: in the demo (800x600 engine, delete zone (0,560)-(200,600), ball 1 at
\* (100,100) with velocity (50,0), ball 2 at (200,100) with velocity (-50,0), radius
\* 20, colours (255,0,0) and (0,0,255)), after 60 updates of 1/60 s the call
\* suck_balls_with_mouse((150,100)) returns both balls, which then have one mixed
\* colour, and the following spit_ball_from_inventory((400,300), direction=(1,0))
\* returns one of them, now alone in the world at (400,300) with velocity (300,0),
\* the other staying in the inventory.  (In the units of SpecDemo (400,300) is
\* (2400,1800) and the velocity (300,0) is (30,0).)
C15_Demo ==
    /\ (call.op = "suck_balls_with_mouse" /\ ncalls = 63) =>
          /\ Len(ret) = 2
          /\ Elems(ret) = {1, 2}
          /\ ball_store[1].id = 1 /\ ball_store[2].id = 2
          /\ ball_store[1].color = ball_store[2].color
          /\ ball_store[1].color \notin {<<255, 0, 0>>, <<0, 0, 255>>}
    /\ (call.op = "spit_ball_from_inventory" /\ ncalls = 64) =>
          /\ ret # None
          /\ ret[1] \in {1, 2}
          /\ balls = <<ret[1]>>
          /\ ~ball_store[ret[1]].in_inventory
          /\ ball_store[ret[1]].velocity = <<30, 0>>
          /\ ball_store[ret[1]].position = <<2400, 1800>>
          /\ inventory = <<3 - ret[1]>>
          /\ ball_store[3 - ret[1]].in_inventory

C15_Witness ==
    /\ call.op = "spit_ball_from_inventory"
    /\ ncalls = 64
    /\ ret # None
    /\ ball_store[ret[1]].velocity = <<30, 0>>
    /\ ball_store[1].color = <<128, 0, 128>>
    /\ Len(inventory) = 1

\* The position of ball r of the old state after the move alone, and after the move
\* and the wall clamp, restated for C16.
RawMoved(r) ==
    LET b == old.store[r]
    IN  <<b.position[1] + b.velocity[1] * call.args[1],
          b.position[2] + b.velocity[2] * call.args[1]>>

Clamped(r) ==
    LET b == old.store[r]
        dt == call.args[1]
    IN  <<AxisAfter(b.position[1], b.velocity[1], b.radius, 800, dt)[1],
          AxisAfter(b.position[2], b.velocity[2], b.radius, 600, dt)[1]>>

\* C16: within one update the delete-zone test reads the position after the wall
\* clamp, not the moved position before it: a world ball is purged exactly when its
\* clamped position lies in the zone; so one whose moved position lies outside the
\* zone and whose clamped position lies inside is purged, and one whose moved
\* position lies inside the zone and whose clamped position lies outside stays.
C16_ZoneAfterClamp ==
    call.op = "update" =>
        \A r \in Elems(old.balls) :
            /\ InZone(Clamped(r)) <=> ~HeldNow(r)
            /\ (~InZone(RawMoved(r)) /\ InZone(Clamped(r))) => r \notin Elems(balls)
            /\ (InZone(RawMoved(r)) /\ ~InZone(Clamped(r))) => r \in Elems(balls)

C16_Witness ==
    /\ call.op = "update"
    /\ \E r \in Elems(old.balls) :
         /\ RawMoved(r) = <<200, 660>>
         /\ ball_store[r].position = <<200, 580>>
         /\ ~HeldNow(r)
    /\ \E r \in Elems(old.balls) :
         /\ RawMoved(r) = <<150, 570>>
         /\ ball_store[r].position = <<150, 550>>
         /\ r \in Elems(balls)

\* C17: colour mixing precedes the purge inside one update: a world ball purged by
\* this update still takes part in its collision pass, so a surviving ball that,
\* after move and clamp, touches a purged ball (and neither touches a third) ends
\* the update with the mix of their two colours, not with its old colour.
C17_MixBeforePurge ==
    call.op = "update" =>
        \A r \in Elems(balls) : \A q \in Elems(old.balls) \ Elems(balls) :
            (/\ Touch(r, q)
             /\ \A o \in Elems(old.balls) \ {r, q} : ~Touch(r, o) /\ ~Touch(q, o))
            => LET c1 == old.store[r].color
                   c2 == old.store[q].color
               IN  /\ ball_store[r].color = mix_colors_rgb(c1, c2)
                   /\ \A k \in 1..3 :
                        /\ ball_store[r].color[k] >= Min2(c1[k], c2[k])
                        /\ ball_store[r].color[k] <= Max2(c1[k], c2[k])
                        /\ Abs(2 * ball_store[r].color[k] - c1[k] - c2[k]) <= 1

C17_Witness ==
    /\ call.op = "update"
    /\ \E r \in Elems(balls) : \E q \in Elems(old.balls) \ Elems(balls) :
         /\ Touch(r, q)
         /\ InZone(ball_store[q].position)
         /\ old.store[r].color = <<0, 255, 0>>
         /\ old.store[q].color = <<201, 0, 0>>
         /\ ball_store[r].color = <<100, 128, 0>>

\* The collision pass restated for C18 on the positions 1..n of the world collection
\* before the call: col gives the colour held by the ball at each position, <<i, j>>
\* is the next pair; the pairs follow each other in lexicographic order.
RECURSIVE PassFrom(_, _, _)
PassFrom(col, i, j) ==
    LET n == Len(old.balls)
    IN  IF i >= n THEN col
        ELSE LET mixed == mix_colors_rgb(col[i], col[j])
                 col2 == IF Touch(old.balls[i], old.balls[j])
                         THEN [col EXCEPT ![i] = mixed, ![j] = mixed]
                         ELSE col
             IN  IF j < n THEN PassFrom(col2, i, j + 1)
                 ELSE PassFrom(col2, i + 1, i + 2)

ColoursBefore == [k \in 1..Len(old.balls) |-> old.store[old.balls[k]].color]

MutuallyTouching ==
    /\ Len(old.balls) = 3
    /\ Touch(old.balls[1], old.balls[2])
    /\ Touch(old.balls[1], old.balls[3])
    /\ Touch(old.balls[2], old.balls[3])

\* C18: the collision pass of update visits each unordered pair of world balls once,
\* in lexicographic order of their positions in the world collection (a spat ball
\* is appended at the tail whatever its id), and mixes a touching pair from the
\* colours the two balls hold at that moment; three mutually touching balls A, B, C
\* in that order with colours a, b, c end with A = mix(mix(a,b), c) and
\* B = C = mix(mix(a,b), mix(mix(a,b), c)).
C18_PassOrder ==
    /\ call.op = "update" =>
         /\ \A k \in 1..Len(old.balls) :
               ball_store[old.balls[k]].color = PassFrom(ColoursBefore, 1, 2)[k]
         /\ MutuallyTouching =>
               LET ab == mix_colors_rgb(ColoursBefore[1], ColoursBefore[2])
                   abc == mix_colors_rgb(ab, ColoursBefore[3])
               IN  /\ ball_store[old.balls[1]].color = abc
                   /\ ball_store[old.balls[2]].color = mix_colors_rgb(ab, abc)
                   /\ ball_store[old.balls[3]].color = mix_colors_rgb(ab, abc)
    /\ (call.op = "spit_ball_from_inventory" /\ ret # None) =>
         balls = Append(old.balls, ret[1])

C18_Witness ==
    /\ call.op = "update"
    /\ MutuallyTouching
    /\ ball_store[old.balls[1]].id = 2
    /\ ball_store[old.balls[2]].id = 3
    /\ ball_store[old.balls[3]].id = 1
    /\ ColoursBefore = <<(<<0, 0, 255>>), (<<0, 255, 0>>), (<<255, 0, 0>>)>>
    /\ ball_store[old.balls[1]].color = <<128, 64, 64>>
    /\ ball_store[old.balls[2]].color = <<64, 96, 96>>
    /\ ball_store[old.balls[3]].color = <<64, 96, 96>>

\* The world balls within the radius of a suck call, in world order, restated for
\* C19: squared distance of the centre from mouse_pos against the squared radius.
SuckRadius == IF call.args[2] = None THEN 80 ELSE call.args[2][1]

Within(r) ==
    LET p == old.store[r].position
        dx == p[1] - call.args[1][1]
        dy == p[2] - call.args[1][2]
    IN  dx * dx + dy * dy <= SuckRadius * SuckRadius

Qualifying == SelectSeq(old.balls, Within)

SuckCount ==
    IF call.args[3] = None THEN Len(Qualifying)
    ELSE IF call.args[3][1] <= 0 THEN 0
    ELSE Min2(call.args[3][1], Len(Qualifying))

\* C19: suck_balls_with_mouse(mouse_pos, radius, max_count) moves the world balls
\* whose squared distance from mouse_pos is <= radius^2 (boundary included, the
\* ball's own radius ignored), in world order; with max_count = m it moves and
\* returns exactly the first min(m, number qualifying) of them, every other ball
\* keeps its place and its state, and m <= 0 moves nothing and returns <<>>.
C19_SuckSelects ==
    call.op = "suck_balls_with_mouse" =>
        /\ ret = SubSeq(Qualifying, 1, SuckCount)
        /\ balls = Without(old.balls, Elems(ret))
        /\ \A r \in Elems(ret) :
             ball_store[r] = [old.store[r] EXCEPT !.in_inventory = TRUE]
        /\ \A r \in DOMAIN old.store \ Elems(ret) : ball_store[r] = old.store[r]
        /\ (call.args[3] # None /\ call.args[3][1] <= 0) =>
             (ret = <<>> /\ EngineUnchanged)

C19_Witness ==
    /\ call.op = "suck_balls_with_mouse"
    /\ call.args[3] = Some(1)
    /\ Len(Qualifying) = 2
    /\ ret = <<Qualifying[1]>>
    /\ Qualifying[2] \in Elems(balls)
    /\ \E r \in Elems(old.balls) :
         /\ ~Within(r)
         /\ r \in Elems(balls)
         /\ old.store[r].position = <<240, 100>>
         /\ old.store[r].radius = 20

C19_BoundaryCase ==
    /\ call.op = "suck_balls_with_mouse"
    /\ call.args[3] = None
    /\ \E r \in Elems(ret) :
         /\ old.store[r].position = <<100, 100>>
         /\ call.args[1] = <<150, 100>>
         /\ SuckRadius = 50

C19_NonPositiveCase ==
    /\ call.op = "suck_balls_with_mouse"
    /\ call.args[3] \in {Some(0), Some(-1)}
    /\ Len(Qualifying) >= 1
    /\ ret = <<>>

\* The staged pipeline restated for C20 over the positions 1..n of the world
\* collection before the call: the move of every ball, then the wall clamp of every
\* ball, then the collision pass, then the purge.
RECURSIVE StageMove(_, _)
StageMove(store, k) ==
    IF k > Len(old.balls) THEN store
    ELSE LET r == old.balls[k]
             b == store[r]
         IN  StageMove([store EXCEPT ![r].position =
                            <<b.position[1] + b.velocity[1] * call.args[1],
                              b.position[2] + b.velocity[2] * call.args[1]>>],
                       k + 1)

StageClampAxis(q, v, rad, dim) ==
    IF q - rad < 0 THEN <<rad, Abs(v)>>
    ELSE IF q + rad > dim THEN <<dim - rad, -Abs(v)>>
    ELSE <<q, v>>

RECURSIVE StageClamp(_, _)
StageClamp(store, k) ==
    IF k > Len(old.balls) THEN store
    ELSE LET r == old.balls[k]
             b == store[r]
             ax == StageClampAxis(b.position[1], b.velocity[1], b.radius, 800)
             ay == StageClampAxis(b.position[2], b.velocity[2], b.radius, 600)
         IN  StageClamp([store EXCEPT ![r].position = <<ax[1], ay[1]>>,
                                      ![r].velocity = <<ax[2], ay[2]>>],
                        k + 1)

RECURSIVE StageMix(_, _, _)
StageMix(store, i, j) ==
    LET n == Len(old.balls)
    IN  IF i >= n THEN store
        ELSE LET b1 == store[old.balls[i]]
                 b2 == store[old.balls[j]]
                 dx == b1.position[1] - b2.position[1]
                 dy == b1.position[2] - b2.position[2]
                 reach == b1.radius + b2.radius
                 mixed == mix_colors_rgb(b1.color, b2.color)
                 store2 == IF dx * dx + dy * dy <= reach * reach
                           THEN [store EXCEPT ![old.balls[i]].color = mixed,
                                              ![old.balls[j]].color = mixed]
                           ELSE store
             IN  IF j < n THEN StageMix(store2, i, j + 1)
                 ELSE StageMix(store2, i + 1, i + 2)

Staged == StageMix(StageClamp(StageMove(old.store, 1), 1), 1, 2)

\* C20: update, which moves and clamps each ball in one loop before the collision
\* pass, ends in the state of the staged pipeline in which the move of the whole
\* world collection completes before any ball is clamped: the same world
\* collection and, for every ball, the same position, velocity and colour.
C20_StagedPipeline ==
    call.op = "update" =>
        /\ balls = SelectSeq(old.balls, LAMBDA r : ~InZone(Staged[r].position))
        /\ ball_store = Staged
        /\ inventory = old.inventory

C20_Witness ==
    /\ call.op = "update"
    /\ Len(old.balls) = 3
    /\ Len(balls) = 2
    /\ \E r \in Elems(old.balls) :
         /\ StageMove(old.store, 1)[r].position # ball_store[r].position
         /\ ball_store[r].velocity # old.store[r].velocity
    /\ \E r \in Elems(old.balls) : ball_store[r].color # old.store[r].color

\* C21: whenever update returns, every ball remaining in the world collection
\* whose diameter fits the arena (2 * radius <= width and 2 * radius <= height) lies
\* fully inside it: radius <= x <= width - radius and radius <= y <= height - radius,
\* whatever position create_ball or spit_ball_from_inventory gave it and whatever
\* dt was used.
C21_InsideArena ==
    call.op = "update" =>
        \A r \in Elems(balls) :
            LET b == ball_store[r]
            IN  (2 * b.radius <= config.width /\ 2 * b.radius <= config.height) =>
                    /\ b.radius <= b.position[1]
                    /\ b.position[1] <= config.width - b.radius
                    /\ b.radius <= b.position[2]
                    /\ b.position[2] <= config.height - b.radius

\* What the wall clamp does establish for those balls: the two tests it makes,
\* on the rounded difference and the rounded sum, are both passed.
C21_InsideAsComputed ==
    call.op = "update" =>
        \A r \in Elems(balls) :
            LET b == ball_store[r]
            IN  (2 * b.radius <= config.width /\ 2 * b.radius <= config.height) =>
                    /\ fl(b.position[1] - b.radius) >= 0
                    /\ fl(b.position[1] + b.radius) <= config.width
                    /\ fl(b.position[2] - b.radius) >= 0
                    /\ fl(b.position[2] + b.radius) <= config.height

====
